---- MODULE Spec2Model ----
(***************************************************************************)
(* Model of the RTP payload layer of gortsplib:                            *)
(*   - rtpav1.Encoder        (src/unnamed/part_001): OBUs -> RTP packets   *)
(*   - rtpmpeg2audio.Decoder (src/unnamed/part_000): RTP packets -> frames *)
(* Bytes are integers in 0..255, byte slices are sequences of bytes.       *)
(***************************************************************************)
EXTENDS Integers, Sequences, FiniteSets, TLC

VARIABLES
    \* ---- rtpav1.Encoder: fields
    PayloadMaxSize,        \* Encoder.PayloadMaxSize
    InitialSequenceNumber, \* *Encoder.InitialSequenceNumber
    sequenceNumber,        \* Encoder.sequenceNumber
    \* ---- rtpav1.Encoder.Encode: arguments, locals and position
    obus,                  \* the obus argument
    pts,                   \* the pts argument
    isKeyFrame,            \* result of av1.ContainsKeyFrame(obus)
    ts,                    \* e.timeEncoder.Encode(pts)
    packets,               \* the packets local; curPacket is its last element
    curPayloadLen,         \* the curPayloadLen local
    obuIdx,                \* index of the range loop over obus
    obu,                   \* the range variable obu (re-sliced by the inner loop)
    encPc,                 \* "idle": no call in progress; "loop": in the loops;
                           \* "done", "failed": at the return of Encode
    encCalls,              \* number of Encode calls started
    emittedBefore,         \* history: packets returned by the earlier calls
    \* ---- rtpmpeg2audio.Decoder: fields
    firstPacketReceived,   \* Decoder.firstPacketReceived
    fragments,             \* Decoder.fragments
    fragmentsSize,         \* Decoder.fragmentsSize
    fragmentsExpected,     \* Decoder.fragmentsExpected
    timePrev,              \* Decoder.timeDecoder: last raw tick
    timeOverall,           \* Decoder.timeDecoder: unwrapped ticks
    \* ---- rtpmpeg2audio.Decoder.Decode: what the last call returned
    decFrames,             \* the frames (<<>> for nil)
    decPts,                \* the duration, in milliseconds
    decErr,                \* the error ("nil" for nil, "none" before any call)
    \* ---- history of the Decode calls, read by the properties only
    pktSeen,               \* header of the last packet and shape of its body
    sizeBefore,            \* fragmentsSize when the last call began
    startSeen,             \* a packet with offset 0 has passed the header checks
    declaredLen,           \* frame length declared by the packet of offset 0
                           \* that began the reassembly in progress
    acceptedBytes,         \* its elementary bytes and those of the continuation
                           \* packets accepted since, in arrival order
    \* ---- formats.rtpH264ContainsIDR: argument, locals, position and result
    pktPayload,            \* pkt.Payload
    stapPayload,           \* the payload local of the STAP-A case
    idrPc,                 \* "idle": no call in progress; "stap": in the loop;
                           \* "done": at a return; "panic": index out of range
    idrRet,                \* the value returned
    \* ---- formats.H264: fields (a nil slice is <<>>)
    SPS,                   \* H264.SPS
    PPS,                   \* H264.PPS
    PacketizationMode,     \* H264.PacketizationMode
    mutexWriter,           \* H264.mutex: the goroutine holding Lock, or NoGoroutine
    mutexReaders,          \* H264.mutex: number of RLock holders
    \* ---- the goroutines calling SafeSetParams, SafeParams and FMTP
    goPc,                  \* position of each goroutine
    goSps,                 \* its sps argument, or the first value it returns
    goPps,                 \* its pps argument, or the second value it returns
    goTmp,                 \* the tmp local of FMTP
    goFmtp,                \* the fmtp map of FMTP
    paramsSet              \* history: the (sps, pps) pairs of the SafeSetParams
                           \* calls made, and the pair the format started with

encVars == <<PayloadMaxSize, InitialSequenceNumber, sequenceNumber, obus, pts,
             isKeyFrame, ts, packets, curPayloadLen, obuIdx, obu, encPc, encCalls,
             emittedBefore>>

decVars == <<firstPacketReceived, fragments, fragmentsSize, fragmentsExpected,
             timePrev, timeOverall, decFrames, decPts, decErr,
             pktSeen, sizeBefore, startSeen, declaredLen, acceptedBytes>>

idrVars == <<pktPayload, stapPayload, idrPc, idrRet>>

h264Vars == <<SPS, PPS, PacketizationMode, mutexWriter, mutexReaders,
              goPc, goSps, goPps, goTmp, goFmtp, paramsSet>>

fmtVars == <<idrVars, h264Vars>>

vars == <<encVars, decVars, fmtVars>>

(***************************************************************************)
(* Bounds of the model.                                                    *)
(***************************************************************************)
MaxObus    == 2   \* longest OBU list built from SmallObuLens
MaxPackets == 6   \* Encode stops creating packets beyond this many
MaxCalls   == 2   \* Encode calls per encoder

\* Lengths of the OBUs that are combined into lists of up to MaxObus OBUs.
SmallObuLens == {0, 1, 8}
\* Lengths of OBUs that are passed alone; 128 and 16384 are the LEB128
\* thresholds of a 2-byte and a 3-byte size prefix.
LargeObuLens == {129, 1459, 16384, 16385}
\* Values of Encoder.PayloadMaxSize before Init (0 = unset).
PayloadMaxSizes == {0, 3, 4, 6, 10, 131, 16387}
InitialSequenceNumbers == {0, 65534}
\* pts arguments, in seconds.
PtsValues == {0, 1}

(***************************************************************************)
(* Byte helpers.                                                           *)
(***************************************************************************)
Pow2(k) == 2^k

\* bit k of byte b
Bit(b, k) == (b \div Pow2(k)) % 2

\* b |= 1 << k
OrBit(b, k) == IF Bit(b, k) = 1 THEN b ELSE b + Pow2(k)

\* the concatenation of a sequence of byte slices
RECURSIVE Flatten(_)
Flatten(ss) == IF ss = <<>> THEN <<>> ELSE Head(ss) \o Flatten(Tail(ss))

\* The content of the k-th OBU of an input list, n bytes long. The first byte
\* keeps the forbidden bit (bit 7) clear, as a well-formed OBU header does.
ObuBytes(k, n) == [i \in 1..n |-> IF i = 1 THEN (10 + 8 * k) % 128
                                            ELSE (k * 61 + i * 7) % 256]

ObusOfLens(lens) == [k \in 1..Len(lens) |-> ObuBytes(k, lens[k])]

SeqsUpTo(S, n) == UNION {[1..m -> S] : m \in 0..n}

\* The OBU lists Encode is called with.
ObuLists == {ObusOfLens(l) : l \in SeqsUpTo(SmallObuLens, MaxObus)}
            \cup {ObusOfLens(<<n>>) : n \in LargeObuLens}

(***************************************************************************)
(* av1.LEB128Marshal (github.com/bluenviron/mediacommon): 7 bits per byte, *)
(* least significant group first, bit 7 set on every byte but the last.    *)
(***************************************************************************)
RECURSIVE LEB128Marshal(_)
LEB128Marshal(v) ==
    IF v \div 128 = 0
    THEN <<v % 128>>
    ELSE <<(v % 128) + 128>> \o LEB128Marshal(v \div 128)

(***************************************************************************)
(* rtptime.Encoder.Encode: ticks of the 90 kHz clock since the initial     *)
(* timestamp, added with 32-bit wraparound. A 32-bit value is kept as the  *)
(* pair <<high 16 bits, low 16 bits>>; pts is in whole seconds.            *)
(***************************************************************************)
ClockRate == 90000

U32(n) == <<(n \div 65536) % 65536, n % 65536>>

AddU32(a, b) ==
    <<(a[1] + b[1] + ((a[2] + b[2]) \div 65536)) % 65536, (a[2] + b[2]) % 65536>>

\* *e.InitialTimestamp: 2^32 - 45000
InitialTimestamp == <<65535, 20536>>

timeEncoderEncode(p) == AddU32(InitialTimestamp, U32(p * ClockRate))

(***************************************************************************)
(* rtpav1.Encoder                                                          *)
(***************************************************************************)
rtpVersion == 2
PayloadType == 96
SSRC == 305419896
DefaultPayloadMaxSize == 1460

\* Encoder.Init: the default of PayloadMaxSize
InitPayloadMaxSize(configured) ==
    IF configured = 0 THEN DefaultPayloadMaxSize ELSE configured

\* mutant: the counter does not wrap
NextSequenceNumberUnbounded(s) == s + 1

\* e.sequenceNumber++ on a uint16
NextSequenceNumber(s) == (s + 1) % 65536

\* createNewPacket(z): the packet list with the new current packet appended
createNewPacket(pkts, seq, t, z) ==
    Append(pkts, [Version        |-> rtpVersion,
                  PayloadType    |-> PayloadType,
                  SequenceNumber |-> seq,
                  Timestamp      |-> t,
                  SSRC           |-> SSRC,
                  Marker         |-> FALSE,
                  Payload        |-> <<IF z THEN OrBit(0, 7) ELSE 0>>])

\* finalizeCurPacket(y): curPacket.Payload[0] |= 1 << 6 when y
finalizeCurPacket(pkts, y) ==
    IF y
    THEN [pkts EXCEPT ![Len(pkts)].Payload[1] = OrBit(@, 6)]
    ELSE pkts

\* curPacket.Payload = append(curPacket.Payload, bytes...)
appendToCurPacket(pkts, bytes) ==
    [pkts EXCEPT ![Len(pkts)].Payload = @ \o bytes]

\* avail := e.PayloadMaxSize - curPayloadLen
Avail == PayloadMaxSize - curPayloadLen

\* needed := obuLen + 2
Needed(obuLen) == obuLen + 2

\* mutant: one byte more is held back
FragmentLenShort(avail) == avail - 3

\* fragmentLen := avail - 2
FragmentLen(avail) == avail - 2

\* obu[:fragmentLen]
ObuHead(o, fragmentLen) == SubSeq(o, 1, fragmentLen)

\* mutant: the rest starts one byte late
ObuRestSkip(o, fragmentLen) == SubSeq(o, fragmentLen + 2, Len(o))

\* obu = obu[fragmentLen:]
ObuRest(o, fragmentLen) == SubSeq(o, fragmentLen + 1, Len(o))

\* mutant: the flag goes on the last packet
SetKeyFrameFlagLast(pkts, kf) ==
    IF kf THEN [pkts EXCEPT ![Len(pkts)].Payload[1] = OrBit(@, 3)] ELSE pkts

\* if isKeyFrame { packets[0].Payload[0] |= 1 << 3 }
SetKeyFrameFlag(pkts, kf) ==
    IF kf THEN [pkts EXCEPT ![1].Payload[1] = OrBit(@, 3)] ELSE pkts

\* mutant: the marker goes on the first packet
SetMarkerFirst(pkts) == [pkts EXCEPT ![1].Marker = TRUE]

\* packets[len(packets)-1].Marker = true
SetMarker(pkts) == [pkts EXCEPT ![Len(pkts)].Marker = TRUE]

\* the value the range loop gives obu at index i
RangeObu(list, i) == IF i <= Len(list) THEN list[i] ELSE <<>>

EncInit ==
    /\ PayloadMaxSize \in {InitPayloadMaxSize(c) : c \in PayloadMaxSizes}
    /\ InitialSequenceNumber \in InitialSequenceNumbers
    /\ sequenceNumber = InitialSequenceNumber
    /\ obus = <<>>
    /\ pts = 0
    /\ isKeyFrame = FALSE
    /\ ts = U32(0)
    /\ packets = <<>>
    /\ curPayloadLen = 0
    /\ obuIdx = 0
    /\ obu = <<>>
    /\ encPc = "idle"
    /\ encCalls = 0
    /\ emittedBefore = 0

\* Encode, entry: av1.ContainsKeyFrame fails and Encode returns (nil, err).
\* ContainsKeyFrame is a function of another module; its outcome is an input.
EncodeFail(in, p) ==
    /\ UNCHANGED <<decVars, fmtVars>>
    /\ encPc = "idle"
    /\ encCalls < MaxCalls
    /\ encCalls' = encCalls + 1
    /\ obus' = in
    /\ pts' = p
    /\ isKeyFrame' = FALSE
    /\ packets' = <<>>
    /\ curPayloadLen' = 0
    /\ obuIdx' = 0
    /\ obu' = <<>>
    /\ encPc' = "failed"
    /\ UNCHANGED <<emittedBefore, PayloadMaxSize, InitialSequenceNumber, sequenceNumber, ts>>

\* Encode, entry up to the first createNewPacket(false).
EncodeBegin(in, p, kf) ==
    /\ UNCHANGED <<decVars, fmtVars>>
    /\ encPc = "idle"
    /\ encCalls < MaxCalls
    /\ encCalls' = encCalls + 1
    /\ obus' = in
    /\ pts' = p
    /\ isKeyFrame' = kf
    /\ ts' = timeEncoderEncode(p)
    /\ packets' = createNewPacket(<<>>, sequenceNumber, ts', FALSE)
    /\ sequenceNumber' = NextSequenceNumber(sequenceNumber)
    /\ curPayloadLen' = 1
    /\ obuIdx' = 1
    /\ obu' = RangeObu(in, 1)
    /\ encPc' = "loop"
    /\ UNCHANGED <<emittedBefore, PayloadMaxSize, InitialSequenceNumber>>

\* inner loop, needed <= avail: the (rest of the) OBU is appended whole
EncodeAppend ==
    /\ UNCHANGED <<decVars, fmtVars>>
    /\ encPc = "loop"
    /\ obuIdx <= Len(obus)
    /\ Needed(Len(obu)) <= Avail
    /\ LET le == LEB128Marshal(Len(obu))
       IN /\ packets' = appendToCurPacket(appendToCurPacket(packets, le), obu)
          /\ curPayloadLen' = curPayloadLen + Len(le) + Len(obu)
    /\ obuIdx' = obuIdx + 1
    /\ obu' = RangeObu(obus, obuIdx + 1)
    /\ UNCHANGED <<emittedBefore, PayloadMaxSize, InitialSequenceNumber, sequenceNumber, obus,
                   pts, isKeyFrame, ts, encPc, encCalls>>

\* inner loop, needed > avail and avail > 2: a leading slice of the OBU fills
\* the current packet, then finalizeCurPacket(true); createNewPacket(true)
EncodeFragment ==
    /\ UNCHANGED <<decVars, fmtVars>>
    /\ encPc = "loop"
    /\ obuIdx <= Len(obus)
    /\ Needed(Len(obu)) > Avail
    /\ Avail > 2
    /\ Len(packets) < MaxPackets
    /\ LET fragmentLen == FragmentLen(Avail)
           le == LEB128Marshal(fragmentLen)
           filled == appendToCurPacket(appendToCurPacket(packets, le),
                                       ObuHead(obu, fragmentLen))
       IN /\ packets' = createNewPacket(finalizeCurPacket(filled, TRUE),
                                        sequenceNumber, ts, TRUE)
          /\ obu' = ObuRest(obu, fragmentLen)
    /\ sequenceNumber' = NextSequenceNumber(sequenceNumber)
    /\ curPayloadLen' = 1
    /\ UNCHANGED <<emittedBefore, PayloadMaxSize, InitialSequenceNumber, obus, pts, isKeyFrame,
                   ts, obuIdx, encPc, encCalls>>

\* inner loop, needed > avail and avail <= 2: nothing is written, then
\* finalizeCurPacket(true); createNewPacket(true)
EncodeNoRoom ==
    /\ UNCHANGED <<decVars, fmtVars>>
    /\ encPc = "loop"
    /\ obuIdx <= Len(obus)
    /\ Needed(Len(obu)) > Avail
    /\ ~(Avail > 2)
    /\ Len(packets) < MaxPackets
    /\ packets' = createNewPacket(finalizeCurPacket(packets, TRUE),
                                  sequenceNumber, ts, TRUE)
    /\ sequenceNumber' = NextSequenceNumber(sequenceNumber)
    /\ curPayloadLen' = 1
    /\ UNCHANGED <<emittedBefore, PayloadMaxSize, InitialSequenceNumber, obus, pts, isKeyFrame,
                   ts, obuIdx, obu, encPc, encCalls>>

\* after the loops: finalizeCurPacket(false), keyframe flag, marker, return
EncodeFinish ==
    /\ UNCHANGED <<decVars, fmtVars>>
    /\ encPc = "loop"
    /\ obuIdx > Len(obus)
    /\ packets' = SetMarker(SetKeyFrameFlag(finalizeCurPacket(packets, FALSE),
                                            isKeyFrame))
    /\ encPc' = "done"
    /\ UNCHANGED <<emittedBefore, PayloadMaxSize, InitialSequenceNumber, sequenceNumber, obus,
                   pts, isKeyFrame, ts, curPayloadLen, obuIdx, obu, encCalls>>

\* Encode has returned: its arguments and locals are gone
EncodeReturn ==
    /\ UNCHANGED <<decVars, fmtVars>>
    /\ encPc \in {"done", "failed"}
    /\ obus' = <<>>
    /\ pts' = 0
    /\ isKeyFrame' = FALSE
    /\ ts' = U32(0)
    /\ packets' = <<>>
    /\ curPayloadLen' = 0
    /\ obuIdx' = 0
    /\ obu' = <<>>
    /\ encPc' = "idle"
    /\ emittedBefore' = emittedBefore + Len(packets)
    /\ UNCHANGED <<PayloadMaxSize, InitialSequenceNumber, sequenceNumber, encCalls>>

EncNext ==
    \/ \E in \in ObuLists, p \in PtsValues : EncodeFail(in, p)
    \/ \E in \in ObuLists, p \in PtsValues, kf \in BOOLEAN : EncodeBegin(in, p, kf)
    \/ EncodeAppend
    \/ EncodeFragment
    \/ EncodeNoRoom
    \/ EncodeFinish
    \/ EncodeReturn

(***************************************************************************)
(* rtptime.Decoder.Decode: the signed wraparound-tolerant delta from the   *)
(* previous raw tick is added to the unwrapped tick count; the duration is *)
(* that count over the clock rate (here in milliseconds).                  *)
(***************************************************************************)
SubU32(a, b) ==
    LET lo == a[2] - b[2]
        borrow == IF lo < 0 THEN 1 ELSE 0
    IN <<(a[1] - b[1] - borrow + 65536) % 65536, (lo + 65536) % 65536>>

\* a 32-bit difference read as a value of (-2^31, 2^31]
SignedDelta(d) ==
    IF d[1] < 32768
    THEN d[1] * 65536 + d[2]
    ELSE IF d = <<32768, 0>>
         THEN 2147483647 + 1
         ELSE 0 - ((65535 - d[1]) * 65536 + (65536 - d[2]))

timeDecoderOverall(prev, overall, t) == overall + SignedDelta(SubU32(t, prev))

TicksToMillis(ticks) ==
    IF ticks >= 0
    THEN (ticks * 1000) \div ClockRate
    ELSE 0 - (((0 - ticks) * 1000) \div ClockRate)

(***************************************************************************)
(* mpeg2audio.FrameHeader (github.com/bluenviron/mediacommon): the 4-byte  *)
(* MPEG-1 audio frame header, for Layer III frames. The frame length is    *)
(* 144 * bitrate / sample rate, plus 1 with the padding bit.               *)
(***************************************************************************)
FrameHeaderSize == 4

Bitrates == <<32000, 40000, 48000, 56000, 64000, 80000, 96000, 112000,
              128000, 160000, 192000, 224000, 256000, 320000>>
SampleRates == <<44100, 48000, 32000>>

\* h.Unmarshal(buf): "nil" or the error
FrameHeaderUnmarshal(buf) ==
    IF Len(buf) < FrameHeaderSize THEN "not enough bytes"
    ELSE IF buf[1] # 255 \/ buf[2] \div 16 # 15 THEN "sync word not found"
    ELSE IF (buf[2] \div 2) % 4 # 1 THEN "unsupported MPEG layer"
    ELSE IF buf[3] \div 16 \notin DOMAIN Bitrates THEN "invalid bitrate"
    ELSE IF (buf[3] \div 4) % 4 \notin 0..2 THEN "invalid sample rate"
    ELSE "nil"

\* h.FrameLen(), for a header that unmarshals
FrameLen(buf) ==
    ((144 * Bitrates[buf[3] \div 16]) \div SampleRates[((buf[3] \div 4) % 4) + 1])
    + ((buf[3] \div 2) % 2)

(***************************************************************************)
(* rtpmpeg2audio.Decoder                                                   *)
(***************************************************************************)
ErrMorePacketsNeeded == "need more packets"
ErrNonStartingPacketAndNoPrevious ==
    "received a non-starting fragment without any previous starting fragment"

MinPayloadLen == 5
PayloadHeaderLen == 4

\* mutant: only the 4 header bytes are required
TooShortOfHeader(payload) == Len(payload) < PayloadHeaderLen

\* len(pkt.Payload) < 5
TooShort(payload) == Len(payload) < MinPayloadLen

\* mbz := uint16(pkt.Payload[0])<<8 | uint16(pkt.Payload[1])
MBZ(payload) == payload[1] * 256 + payload[2]

\* offset := uint16(pkt.Payload[2])<<8 | uint16(pkt.Payload[3])
Offset(payload) == payload[3] * 256 + payload[4]

\* pkt.Payload[4:]
Body(payload) == SubSeq(payload, PayloadHeaderLen + 1, Len(payload))

\* mutant: the pending fragments are kept
KeepFragments(frs) == frs

\* d.fragments = d.fragments[:0]
DiscardFragments(frs) == SubSeq(frs, 1, 0)

\* mutant: the flag is left as it is
FirstPacketReceivedKept(was) == was

\* d.firstPacketReceived = true
FirstPacketReceivedSet(was) == TRUE

\* mutant: a continuation is taken at any offset up to the accumulated size
OffsetAtMost(offset, size) == offset <= size

\* the negation of int(offset) != d.fragmentsSize
OffsetMatches(offset, size) == offset = size

\* mutant: the bytes of the first packet are not counted
ExpectedWholeFrame(fl, bl) == fl

\* d.fragmentsExpected = fl - bl
ExpectedAfterStart(fl, bl) == fl - bl

\* mutant: every fragment is copied to the start of the buffer
joinFragmentsNoAdvance(frs, size) ==
    [i \in 1..size |->
        IF \E k \in 1..Len(frs) : i <= Len(frs[k])
        THEN LET k == CHOOSE j \in 1..Len(frs) :
                        /\ i <= Len(frs[j])
                        /\ \A l \in (j + 1)..Len(frs) : i > Len(frs[l])
             IN frs[k][i]
        ELSE 0]

\* joinFragments: a buffer of size bytes, the fragments copied in one after
\* the other from its start
joinFragments(frs, size) ==
    LET all == Flatten(frs)
    IN [i \in 1..size |-> IF i <= Len(all) THEN all[i] ELSE 0]

\* mutant: a truncated frame begins a reassembly wherever it stands
TruncatedIsNeverInvalid(frames) == FALSE

\* len(frames) != 0
TruncatedIsInvalid(frames) == Len(frames) # 0

\* the loop over buf of the offset == 0 branch, from the frames found so far:
\*   kind "err":      h.Unmarshal failed
\*   kind "frames":   buf was consumed by complete frames
\*   kind "invalid":  a truncated frame follows a complete one
\*   kind "fragment": buf is one truncated frame of declared length fl
RECURSIVE ParseFrames(_, _)
ParseFrames(buf, frames) ==
    LET e == FrameHeaderUnmarshal(buf)
    IN IF e # "nil"
       THEN [kind |-> "err", err |-> e, frames |-> <<>>, fl |-> 0, buf |-> buf]
       ELSE LET fl == FrameLen(buf)
                bl == Len(buf)
            IN IF bl >= fl
               THEN IF bl = fl
                    THEN [kind |-> "frames", err |-> "nil",
                          frames |-> Append(frames, SubSeq(buf, 1, fl)),
                          fl |-> fl, buf |-> <<>>]
                    ELSE ParseFrames(SubSeq(buf, fl + 1, bl),
                                     Append(frames, SubSeq(buf, 1, fl)))
               ELSE IF TruncatedIsInvalid(frames)
                    THEN [kind |-> "invalid", err |-> "invalid packet",
                          frames |-> <<>>, fl |-> fl, buf |-> buf]
                    ELSE [kind |-> "fragment", err |-> ErrMorePacketsNeeded,
                          frames |-> <<>>, fl |-> fl, buf |-> buf]

(***************************************************************************)
(* The packets Decode is called with.                                      *)
(***************************************************************************)
\* a Layer III frame at 48 kHz whose third header byte is b3
FrameBytes(b3, tag) ==
    LET hdr == <<255, 251, b3, 196>>
    IN [i \in 1..FrameLen(hdr) |-> IF i <= 4 THEN hdr[i] ELSE (tag + 3 * i) % 251]

FrameA == FrameBytes(20, 1)     \* 32 kbit/s: 96 bytes
FrameB == FrameBytes(36, 100)   \* 40 kbit/s: 120 bytes

\* where frames are cut into fragments
Cuts(f) == {0, 3, 40, 70, Len(f)}

Pieces(f) == {SubSeq(f, a + 1, b) : <<a, b>> \in {c \in Cuts(f) \X Cuts(f) : c[1] < c[2]}}

Bodies ==
    Pieces(FrameA) \cup Pieces(FrameB)
    \cup {<<>>,
          FrameA \o FrameB,
          FrameB \o SubSeq(FrameA, 1, 40),
          FrameA \o SubSeq(FrameB, 1, 3)}

Offsets == {0, 40, 70}

PayloadHeader(mbz, offset) ==
    <<mbz \div 256, mbz % 256, offset \div 256, offset % 256>>

Payloads ==
    {PayloadHeader(0, o) \o b : o \in Offsets, b \in Bodies}
    \cup {PayloadHeader(1, o) \o FrameA : o \in {0, 40}}
    \cup {<<>>, <<0, 0, 40>>}

\* 2^32 - 45000 and 45000
Timestamps == {<<65535, 20536>>, <<0, 45000>>}

Packets == [Payload : Payloads, Timestamp : Timestamps]

\* ---- the history variables
\* the number of complete frames at the head of buf
RECURSIVE LeadingFrames(_)
LeadingFrames(buf) ==
    IF FrameHeaderUnmarshal(buf) = "nil" /\ Len(buf) >= FrameLen(buf)
    THEN 1 + LeadingFrames(SubSeq(buf, FrameLen(buf) + 1, Len(buf)))
    ELSE 0

\* what is left of buf behind its complete frames
RECURSIVE BehindFrames(_)
BehindFrames(buf) ==
    IF FrameHeaderUnmarshal(buf) = "nil" /\ Len(buf) >= FrameLen(buf)
    THEN BehindFrames(SubSeq(buf, FrameLen(buf) + 1, Len(buf)))
    ELSE buf

\* buf is the head of a frame and not all of it (a head too short to hold
\* the frame header counts as one)
IsTruncatedFrame(buf) ==
    /\ buf # <<>>
    /\ \/ Len(buf) < FrameHeaderSize
       \/ FrameHeaderUnmarshal(buf) = "nil" /\ Len(buf) < FrameLen(buf)

\* the header bytes of a payload, whether elementary bytes follow them, how
\* many complete frames these begin with and whether a truncated frame is
\* behind those
Summary(payload) ==
    [header    |-> SubSeq(payload, 1, IF Len(payload) < PayloadHeaderLen
                                      THEN Len(payload) ELSE PayloadHeaderLen),
     hasBody   |-> Len(payload) > PayloadHeaderLen,
     frames    |-> LeadingFrames(Body(payload)),
     truncated |-> IsTruncatedFrame(BehindFrames(Body(payload)))]

PassesHeaderChecks(payload) == ~TooShort(payload) /\ MBZ(payload) = 0

\* What a caller sees of a reassembly: it begins with a packet of offset 0
\* answered by ErrMorePacketsNeeded, goes on with every later packet answered
\* by ErrMorePacketsNeeded, and ends with any other answer; "joined" is the
\* answer nil to a packet of non-zero offset.
Observe(p, answer) ==
    /\ pktSeen' = Summary(p.Payload)
    /\ sizeBefore' = fragmentsSize
    /\ startSeen' = (startSeen \/ (PassesHeaderChecks(p.Payload)
                                   /\ Offset(p.Payload) = 0))
    /\ IF answer = "started"
       THEN /\ declaredLen' = FrameLen(Body(p.Payload))
            /\ acceptedBytes' = Body(p.Payload)
       ELSE IF answer \in {"more", "joined"}
       THEN /\ declaredLen' = declaredLen
            /\ acceptedBytes' = acceptedBytes \o Body(p.Payload)
       ELSE /\ declaredLen' = 0
            /\ acceptedBytes' = <<>>

DecInit ==
    /\ firstPacketReceived = FALSE
    /\ fragments = <<>>
    /\ fragmentsSize = 0
    /\ fragmentsExpected = 0
    /\ timePrev = U32(0)
    /\ timeOverall = 0
    /\ decFrames = <<>>
    /\ decPts = 0
    /\ decErr = "none"
    /\ pktSeen = Summary(<<>>)
    /\ sizeBefore = 0
    /\ startSeen = FALSE
    /\ declaredLen = 0
    /\ acceptedBytes = <<>>

\* return nil, 0, err
ReturnError(e) ==
    /\ decFrames' = <<>>
    /\ decPts' = 0
    /\ decErr' = e
    /\ UNCHANGED <<timePrev, timeOverall>>

\* return frames, d.timeDecoder.Decode(pkt.Timestamp), nil
ReturnFrames(frames, t) ==
    /\ decFrames' = frames
    /\ timeOverall' = timeDecoderOverall(timePrev, timeOverall, t)
    /\ timePrev' = t
    /\ decPts' = TicksToMillis(timeOverall')
    /\ decErr' = "nil"

\* len(pkt.Payload) < 5
DecodeTooShort(p) ==
    /\ UNCHANGED <<encVars, fmtVars>>
    /\ TooShort(p.Payload)
    /\ fragments' = DiscardFragments(fragments)
    /\ fragmentsSize' = 0
    /\ ReturnError("payload is too short")
    /\ Observe(p, "error")
    /\ UNCHANGED <<firstPacketReceived, fragmentsExpected>>

\* mbz != 0
DecodeInvalidMBZ(p) ==
    /\ UNCHANGED <<encVars, fmtVars>>
    /\ ~TooShort(p.Payload)
    /\ MBZ(p.Payload) # 0
    /\ fragments' = DiscardFragments(fragments)
    /\ fragmentsSize' = 0
    /\ ReturnError("invalid MBZ")
    /\ Observe(p, "error")
    /\ UNCHANGED <<firstPacketReceived, fragmentsExpected>>

\* offset == 0, h.Unmarshal fails or a truncated frame follows a complete one
DecodeStartError(p) ==
    /\ UNCHANGED <<encVars, fmtVars>>
    /\ PassesHeaderChecks(p.Payload)
    /\ Offset(p.Payload) = 0
    /\ LET r == ParseFrames(Body(p.Payload), <<>>)
       IN /\ r.kind \in {"err", "invalid"}
          /\ ReturnError(r.err)
    /\ fragments' = DiscardFragments(fragments)
    /\ fragmentsSize' = 0
    /\ firstPacketReceived' = FirstPacketReceivedSet(firstPacketReceived)
    /\ Observe(p, "error")
    /\ UNCHANGED fragmentsExpected

\* offset == 0, the payload is one or more complete frames
DecodeStartFrames(p) ==
    /\ UNCHANGED <<encVars, fmtVars>>
    /\ PassesHeaderChecks(p.Payload)
    /\ Offset(p.Payload) = 0
    /\ LET r == ParseFrames(Body(p.Payload), <<>>)
       IN /\ r.kind = "frames"
          /\ ReturnFrames(r.frames, p.Timestamp)
    /\ fragments' = DiscardFragments(fragments)
    /\ fragmentsSize' = 0
    /\ firstPacketReceived' = FirstPacketReceivedSet(firstPacketReceived)
    /\ Observe(p, "frames")
    /\ UNCHANGED fragmentsExpected

\* offset == 0, the payload is the start of one truncated frame
DecodeStartFragment(p) ==
    /\ UNCHANGED <<encVars, fmtVars>>
    /\ PassesHeaderChecks(p.Payload)
    /\ Offset(p.Payload) = 0
    /\ LET r == ParseFrames(Body(p.Payload), <<>>)
           buf == r.buf
       IN /\ r.kind = "fragment"
          /\ fragments' = Append(DiscardFragments(fragments), buf)
          /\ fragmentsSize' = Len(buf)
          /\ fragmentsExpected' = ExpectedAfterStart(r.fl, Len(buf))
    /\ firstPacketReceived' = FirstPacketReceivedSet(firstPacketReceived)
    /\ ReturnError(ErrMorePacketsNeeded)
    /\ Observe(p, "started")

\* offset != 0 and != fragmentsSize, nothing received before
DecodeNonStarting(p) ==
    /\ UNCHANGED <<encVars, fmtVars>>
    /\ PassesHeaderChecks(p.Payload)
    /\ Offset(p.Payload) # 0
    /\ ~OffsetMatches(Offset(p.Payload), fragmentsSize)
    /\ ~firstPacketReceived
    /\ ReturnError(ErrNonStartingPacketAndNoPrevious)
    /\ Observe(p, "error")
    /\ UNCHANGED <<firstPacketReceived, fragments, fragmentsSize, fragmentsExpected>>

\* offset != 0 and != fragmentsSize
DecodeUnexpectedOffset(p) ==
    /\ UNCHANGED <<encVars, fmtVars>>
    /\ PassesHeaderChecks(p.Payload)
    /\ Offset(p.Payload) # 0
    /\ ~OffsetMatches(Offset(p.Payload), fragmentsSize)
    /\ firstPacketReceived
    /\ fragments' = DiscardFragments(fragments)
    /\ fragmentsSize' = 0
    /\ ReturnError("unexpected offset")
    /\ Observe(p, "error")
    /\ UNCHANGED <<firstPacketReceived, fragmentsExpected>>

\* offset == fragmentsSize, more bytes than expected
DecodeTooBig(p) ==
    /\ UNCHANGED <<encVars, fmtVars>>
    /\ PassesHeaderChecks(p.Payload)
    /\ Offset(p.Payload) # 0
    /\ OffsetMatches(Offset(p.Payload), fragmentsSize)
    /\ LET bl == Len(Body(p.Payload))
       IN /\ fragmentsExpected - bl < 0
          /\ fragmentsExpected' = fragmentsExpected - bl
    /\ fragments' = DiscardFragments(fragments)
    /\ fragmentsSize' = 0
    /\ ReturnError("fragment is too big")
    /\ Observe(p, "error")
    /\ UNCHANGED firstPacketReceived

\* offset == fragmentsSize, bytes are still expected
DecodeMore(p) ==
    /\ UNCHANGED <<encVars, fmtVars>>
    /\ PassesHeaderChecks(p.Payload)
    /\ Offset(p.Payload) # 0
    /\ OffsetMatches(Offset(p.Payload), fragmentsSize)
    /\ LET bl == Len(Body(p.Payload))
       IN /\ fragmentsExpected - bl > 0
          /\ fragmentsSize' = fragmentsSize + bl
          /\ fragmentsExpected' = fragmentsExpected - bl
    /\ fragments' = Append(fragments, Body(p.Payload))
    /\ ReturnError(ErrMorePacketsNeeded)
    /\ Observe(p, "more")
    /\ UNCHANGED firstPacketReceived

\* offset == fragmentsSize, the frame is complete
DecodeJoin(p) ==
    /\ UNCHANGED <<encVars, fmtVars>>
    /\ PassesHeaderChecks(p.Payload)
    /\ Offset(p.Payload) # 0
    /\ OffsetMatches(Offset(p.Payload), fragmentsSize)
    /\ LET bl == Len(Body(p.Payload))
       IN /\ fragmentsExpected - bl = 0
          /\ fragmentsExpected' = fragmentsExpected - bl
          /\ ReturnFrames(<<joinFragments(Append(fragments, Body(p.Payload)),
                                          fragmentsSize + bl)>>,
                          p.Timestamp)
          /\ fragments' = DiscardFragments(Append(fragments, Body(p.Payload)))
    /\ fragmentsSize' = 0
    /\ Observe(p, "joined")
    /\ UNCHANGED firstPacketReceived

Decode(p) ==
    \/ DecodeTooShort(p)
    \/ DecodeInvalidMBZ(p)
    \/ DecodeStartError(p)
    \/ DecodeStartFrames(p)
    \/ DecodeStartFragment(p)
    \/ DecodeNonStarting(p)
    \/ DecodeUnexpectedOffset(p)
    \/ DecodeTooBig(p)
    \/ DecodeMore(p)
    \/ DecodeJoin(p)

DecNext == \E p \in Packets : Decode(p)

(***************************************************************************)
(* formats.rtpH264ContainsIDR (src/pkg/formats/h264.go). Go slices are     *)
(* indexed from 0; an index or a slice bound out of range panics.          *)
(***************************************************************************)
NALUTypeIDR == 5
NALUTypeSTAPA == 24
NALUTypeFUA == 28

\* s[i] panics
IndexOutOfRange(s, i) == i < 0 \/ i >= Len(s)

\* s[i]
At(s, i) == IF IndexOutOfRange(s, i) THEN 0 ELSE s[i + 1]

\* s[lo:hi] panics
SliceOutOfRange(s, lo, hi) == lo < 0 \/ hi < lo \/ hi > Len(s)

\* s[lo:hi]
Slice(s, lo, hi) == IF SliceOutOfRange(s, lo, hi) THEN <<>> ELSE SubSeq(s, lo + 1, hi)

\* mutant: the whole byte is taken as the type
NALUTypeUnmasked(b) == b

\* h264.NALUType(b & 0x1F)
NALUType(b) == b % 32

\* uint16(payload[0])<<8 | uint16(payload[1])
Size16(buf) == At(buf, 0) * 256 + At(buf, 1)

\* mutant: a zero size is let through
SizeTooBig(size, rest) == size > Len(rest)

\* size == 0 || int(size) > len(payload)
SizeInvalid(size, rest) == size = 0 \/ size > Len(rest)

\* mutant: the walk does not step over the unit
AfterSize(rest, size) == rest

\* payload = payload[size:]
AfterNalu(rest, size) == Slice(rest, size, Len(rest))

\* mutant: the end bit (bit 6) is read
EndBit(b) == (b \div 64) % 2

\* start := pkt.Payload[1] >> 7
StartBit(b) == b \div 128

\* one pass of the STAP-A loop over a payload of 2 bytes or more:
\*   kind "false": return false;  kind "true": return true;
\*   kind "next":  the loop goes on with rest;  kind "panic": out of range
StapEntry(buf) ==
    LET size == Size16(buf)
        rest == Slice(buf, 2, Len(buf))
    IN IF SizeInvalid(size, rest)
       THEN [kind |-> "false", rest |-> rest]
       ELSE LET nalu == Slice(rest, 0, size)
                after == AfterNalu(rest, size)
            IN IF \/ SliceOutOfRange(rest, 0, size)
                  \/ SliceOutOfRange(rest, size, Len(rest))
                  \/ IndexOutOfRange(nalu, 0)
               THEN [kind |-> "panic", rest |-> rest]
               ELSE IF NALUType(At(nalu, 0)) = NALUTypeIDR
                    THEN [kind |-> "true", rest |-> after]
                    ELSE [kind |-> "next", rest |-> after]

(***************************************************************************)
(* The payloads rtpH264ContainsIDR is called with.                         *)
(***************************************************************************)
MaxEntries == 2   \* most well-formed entries at the head of an aggregation

\* first bytes: types 0, 1, 5, 7, 24, 28, 31, with and without NRI bits
FirstBytes == {0, 1, 5, 101, 7, 24, 56, 28, 124, 31}
\* second bytes of a fragmentation unit: start, end and type bits
FuHeaders == {5, 133, 69, 197, 129, 1, 37, 165}
\* the units aggregated
Nalus == {<<5>>, <<101, 9>>, <<1>>, <<33, 7, 5>>}

\* {2-byte big-endian size, unit}
Entry(nalu) == <<Len(nalu) \div 256, Len(nalu) % 256>> \o nalu

\* what follows the well-formed entries: nothing, a truncated size field, a
\* zero size, a size larger than the remaining bytes
Tails == {<<>>, <<0>>, <<5>>, <<0, 0>>, <<0, 0, 5>>, <<0, 1>>, <<0, 2, 5>>,
          <<1, 0, 5>>, <<0, 0>> \o Entry(<<5>>), <<0, 3, 1, 2>> \o Entry(<<5>>)}

StapPayloads ==
    {<<h>> \o Flatten([i \in DOMAIN es |-> Entry(es[i])]) \o t :
        h \in {24, 56}, es \in SeqsUpTo(Nalus, MaxEntries), t \in Tails}

FuPayloads == {<<h, b>> \o t : h \in {28, 124}, b \in FuHeaders, t \in {<<>>, <<5, 6>>}}

H264Payloads ==
    {<<>>} \cup {<<b>> : b \in FirstBytes}
    \cup {<<b, 5, 6>> : b \in FirstBytes \ {24, 56}}
    \cup StapPayloads \cup FuPayloads

IdrInit ==
    /\ pktPayload = <<>>
    /\ stapPayload = <<>>
    /\ idrPc = "idle"
    /\ idrRet = FALSE

\* the code from the call to the switch
IdrEnter(p) ==
    /\ idrPc = "idle"
    /\ UNCHANGED <<encVars, decVars, h264Vars>>
    /\ pktPayload' = p

\* return v
IdrReturn(v) ==
    /\ idrPc' = "done"
    /\ idrRet' = v

\* len(pkt.Payload) == 0
ContainsIDREmpty(p) ==
    /\ IdrEnter(p)
    /\ Len(p) = 0
    /\ IdrReturn(FALSE)
    /\ UNCHANGED stapPayload

\* case h264.NALUTypeIDR
ContainsIDRSingle(p) ==
    /\ IdrEnter(p)
    /\ Len(p) # 0
    /\ NALUType(At(p, 0)) = NALUTypeIDR
    /\ IdrReturn(TRUE)
    /\ UNCHANGED stapPayload

\* default
ContainsIDROther(p) ==
    /\ IdrEnter(p)
    /\ Len(p) # 0
    /\ NALUType(At(p, 0)) \notin {NALUTypeIDR, NALUTypeSTAPA, NALUTypeFUA}
    /\ IdrReturn(FALSE)
    /\ UNCHANGED stapPayload

\* case 24: payload := pkt.Payload[1:]
ContainsIDRStapBegin(p) ==
    /\ IdrEnter(p)
    /\ Len(p) # 0
    /\ NALUType(At(p, 0)) = NALUTypeSTAPA
    /\ stapPayload' = Slice(p, 1, Len(p))
    /\ idrPc' = "stap"
    /\ UNCHANGED idrRet

\* the loop ends: len(payload) == 0
ContainsIDRStapEnd ==
    /\ UNCHANGED <<encVars, decVars, h264Vars>>
    /\ idrPc = "stap"
    /\ Len(stapPayload) = 0
    /\ IdrReturn(FALSE)
    /\ UNCHANGED <<pktPayload, stapPayload>>

\* len(payload) < 2
ContainsIDRStapTruncated ==
    /\ UNCHANGED <<encVars, decVars, h264Vars>>
    /\ idrPc = "stap"
    /\ Len(stapPayload) > 0
    /\ Len(stapPayload) < 2
    /\ IdrReturn(FALSE)
    /\ UNCHANGED <<pktPayload, stapPayload>>

\* size == 0 || int(size) > len(payload)
ContainsIDRStapBadSize ==
    /\ UNCHANGED <<encVars, decVars, h264Vars>>
    /\ idrPc = "stap"
    /\ Len(stapPayload) >= 2
    /\ StapEntry(stapPayload).kind = "false"
    /\ stapPayload' = StapEntry(stapPayload).rest
    /\ IdrReturn(FALSE)
    /\ UNCHANGED pktPayload

\* the unit is an IDR
ContainsIDRStapFound ==
    /\ UNCHANGED <<encVars, decVars, h264Vars>>
    /\ idrPc = "stap"
    /\ Len(stapPayload) >= 2
    /\ StapEntry(stapPayload).kind = "true"
    /\ stapPayload' = StapEntry(stapPayload).rest
    /\ IdrReturn(TRUE)
    /\ UNCHANGED pktPayload

\* the unit is not an IDR: the loop goes on
ContainsIDRStapNext ==
    /\ UNCHANGED <<encVars, decVars, h264Vars>>
    /\ idrPc = "stap"
    /\ Len(stapPayload) >= 2
    /\ StapEntry(stapPayload).kind \in {"next", "panic"}
    /\ stapPayload' = StapEntry(stapPayload).rest
    /\ idrPc' = IF StapEntry(stapPayload).kind = "panic" THEN "panic" ELSE "stap"
    /\ UNCHANGED <<pktPayload, idrRet>>

\* case 28: len(pkt.Payload) < 2
ContainsIDRFuShort(p) ==
    /\ IdrEnter(p)
    /\ Len(p) # 0
    /\ NALUType(At(p, 0)) = NALUTypeFUA
    /\ Len(p) < 2
    /\ IdrReturn(FALSE)
    /\ UNCHANGED stapPayload

\* case 28: start != 1
ContainsIDRFuNotStart(p) ==
    /\ IdrEnter(p)
    /\ Len(p) # 0
    /\ NALUType(At(p, 0)) = NALUTypeFUA
    /\ ~(Len(p) < 2)
    /\ StartBit(At(p, 1)) # 1
    /\ IdrReturn(FALSE)
    /\ UNCHANGED stapPayload

\* case 28: return (typ == h264.NALUTypeIDR)
ContainsIDRFuStart(p) ==
    /\ IdrEnter(p)
    /\ Len(p) # 0
    /\ NALUType(At(p, 0)) = NALUTypeFUA
    /\ ~(Len(p) < 2)
    /\ StartBit(At(p, 1)) = 1
    /\ IdrReturn(NALUType(At(p, 1)) = NALUTypeIDR)
    /\ UNCHANGED stapPayload

\* rtpH264ContainsIDR has returned: its argument and locals are gone
ContainsIDRReturned ==
    /\ UNCHANGED <<encVars, decVars, h264Vars>>
    /\ idrPc = "done"
    /\ pktPayload' = <<>>
    /\ stapPayload' = <<>>
    /\ idrPc' = "idle"
    /\ idrRet' = FALSE

rtpH264ContainsIDR(p) ==
    \/ ContainsIDREmpty(p)
    \/ ContainsIDRSingle(p)
    \/ ContainsIDROther(p)
    \/ ContainsIDRStapBegin(p)
    \/ ContainsIDRFuShort(p)
    \/ ContainsIDRFuNotStart(p)
    \/ ContainsIDRFuStart(p)

\* the steps of the STAP-A loop
StapStep ==
    \/ ContainsIDRStapEnd
    \/ ContainsIDRStapTruncated
    \/ ContainsIDRStapBadSize
    \/ ContainsIDRStapFound
    \/ ContainsIDRStapNext

IdrNext ==
    \/ \E p \in H264Payloads : rtpH264ContainsIDR(p)
    \/ StapStep
    \/ ContainsIDRReturned

(***************************************************************************)
(* formats.H264 (src/pkg/formats/h264.go): SafeSetParams, SafeParams and   *)
(* FMTP, called by goroutines that run concurrently. Every access to a     *)
(* field of the format is a step of its own. Strings are sequences of      *)
(* ASCII codes.                                                            *)
(***************************************************************************)
MaxGoroutines == 3

Goroutines == 1..MaxGoroutines
NoGoroutine == 0

Nil == <<>>

\* the (sps, pps) pairs passed to SafeSetParams
ParamPairs == {<<(<<103, 66, 0, 30>>), (<<104, 206>>)>>,
               <<(<<103, 100, 0>>), (<<104, 238, 60>>)>>}
InitialParams == <<Nil, Nil>>
PacketizationModes == {0, 1}

\* sync.RWMutex: Lock waits for the writer and the readers to leave
CanLock == mutexWriter = NoGoroutine /\ mutexReaders = 0

\* mutant: RLock does not wait for the writer
CanRLockAlways == TRUE

\* sync.RWMutex: RLock waits for the writer to leave
CanRLock == mutexWriter = NoGoroutine

\* base64.StdEncoding: the character of a 6-bit value
Base64Char(v) ==
    IF v < 26 THEN 65 + v
    ELSE IF v < 52 THEN 97 + (v - 26)
    ELSE IF v < 62 THEN 48 + (v - 52)
    ELSE IF v = 62 THEN 43 ELSE 47

\* base64.StdEncoding.EncodeToString
RECURSIVE EncodeToString(_)
EncodeToString(b) ==
    IF Len(b) = 0 THEN <<>>
    ELSE IF Len(b) = 1
    THEN <<Base64Char(b[1] \div 4), Base64Char((b[1] % 4) * 16), 61, 61>>
    ELSE IF Len(b) = 2
    THEN <<Base64Char(b[1] \div 4),
           Base64Char((b[1] % 4) * 16 + (b[2] \div 16)),
           Base64Char((b[2] % 16) * 4), 61>>
    ELSE <<Base64Char(b[1] \div 4),
           Base64Char((b[1] % 4) * 16 + (b[2] \div 16)),
           Base64Char((b[2] % 16) * 4 + (b[3] \div 64)),
           Base64Char(b[3] % 64)>>
         \o EncodeToString(SubSeq(b, 4, Len(b)))

HexChar(v) == IF v < 10 THEN 48 + v ELSE 65 + (v - 10)

\* strings.ToUpper(hex.EncodeToString(b))
RECURSIVE HexUpper(_)
HexUpper(b) ==
    IF Len(b) = 0 THEN <<>>
    ELSE <<HexChar(b[1] \div 16), HexChar(b[1] % 16)>> \o HexUpper(Tail(b))

\* strconv.FormatInt(n, 10), n >= 0
RECURSIVE FormatInt(_)
FormatInt(n) ==
    IF n < 10 THEN <<48 + n>> ELSE FormatInt(n \div 10) \o <<48 + (n % 10)>>

\* strings.Join(tmp, ",")
RECURSIVE Join(_)
Join(tmp) ==
    IF Len(tmp) = 0 THEN <<>>
    ELSE IF Len(tmp) = 1 THEN tmp[1]
    ELSE tmp[1] \o <<44>> \o Join(Tail(tmp))

\* fmtp[k] = v
MapSet(m, k, v) == [x \in DOMAIN m \cup {k} |-> IF x = k THEN v ELSE m[x]]

\* make(map[string]string)
EmptyMap == [x \in {} |-> <<>>]

H264Init ==
    /\ SPS = InitialParams[1]
    /\ PPS = InitialParams[2]
    /\ PacketizationMode \in PacketizationModes
    /\ mutexWriter = NoGoroutine
    /\ mutexReaders = 0
    /\ goPc = [g \in Goroutines |-> "idle"]
    /\ goSps = [g \in Goroutines |-> Nil]
    /\ goPps = [g \in Goroutines |-> Nil]
    /\ goTmp = [g \in Goroutines |-> <<>>]
    /\ goFmtp = [g \in Goroutines |-> EmptyMap]
    /\ paramsSet = {InitialParams}

\* goroutine g moves from one position to the next
GoStep(g, from, to) ==
    /\ UNCHANGED <<encVars, decVars, idrVars>>
    /\ goPc[g] = from
    /\ goPc' = [goPc EXCEPT ![g] = to]

\* SafeSetParams(sps, pps): f.mutex.Lock()
SafeSetParamsLock(g, sps, pps) ==
    /\ GoStep(g, "idle", "setSPS")
    /\ CanLock
    /\ mutexWriter' = g
    /\ goSps' = [goSps EXCEPT ![g] = sps]
    /\ goPps' = [goPps EXCEPT ![g] = pps]
    /\ paramsSet' = paramsSet \cup {<<sps, pps>>}
    /\ UNCHANGED <<SPS, PPS, PacketizationMode, mutexReaders, goTmp, goFmtp>>

\* f.SPS = sps
SafeSetParamsSPS(g) ==
    /\ GoStep(g, "setSPS", "setPPS")
    /\ SPS' = goSps[g]
    /\ UNCHANGED <<PPS, PacketizationMode, mutexWriter, mutexReaders,
                   goSps, goPps, goTmp, goFmtp, paramsSet>>

\* f.PPS = pps
SafeSetParamsPPS(g) ==
    /\ GoStep(g, "setPPS", "setUnlock")
    /\ PPS' = goPps[g]
    /\ UNCHANGED <<SPS, PacketizationMode, mutexWriter, mutexReaders,
                   goSps, goPps, goTmp, goFmtp, paramsSet>>

\* the deferred f.mutex.Unlock(), and the return
SafeSetParamsUnlock(g) ==
    /\ GoStep(g, "setUnlock", "idle")
    /\ mutexWriter' = NoGoroutine
    /\ goSps' = [goSps EXCEPT ![g] = Nil]
    /\ goPps' = [goPps EXCEPT ![g] = Nil]
    /\ UNCHANGED <<SPS, PPS, PacketizationMode, mutexReaders, goTmp, goFmtp,
                   paramsSet>>

\* SafeParams(): f.mutex.RLock()
SafeParamsRLock(g) ==
    /\ GoStep(g, "idle", "getSPS")
    /\ CanRLock
    /\ mutexReaders' = mutexReaders + 1
    /\ UNCHANGED <<SPS, PPS, PacketizationMode, mutexWriter,
                   goSps, goPps, goTmp, goFmtp, paramsSet>>

\* return f.SPS, f.PPS: the first value
SafeParamsSPS(g) ==
    /\ GoStep(g, "getSPS", "getPPS")
    /\ goSps' = [goSps EXCEPT ![g] = SPS]
    /\ UNCHANGED <<SPS, PPS, PacketizationMode, mutexWriter, mutexReaders,
                   goPps, goTmp, goFmtp, paramsSet>>

\* return f.SPS, f.PPS: the second value
SafeParamsPPS(g) ==
    /\ GoStep(g, "getPPS", "getUnlock")
    /\ goPps' = [goPps EXCEPT ![g] = PPS]
    /\ UNCHANGED <<SPS, PPS, PacketizationMode, mutexWriter, mutexReaders,
                   goSps, goTmp, goFmtp, paramsSet>>

\* the deferred f.mutex.RUnlock(); the caller has the two values
SafeParamsRUnlock(g) ==
    /\ GoStep(g, "getUnlock", "getDone")
    /\ mutexReaders' = mutexReaders - 1
    /\ UNCHANGED <<SPS, PPS, PacketizationMode, mutexWriter,
                   goSps, goPps, goTmp, goFmtp, paramsSet>>

\* FMTP(): f.mutex.RLock(); fmtp := make(map[string]string)
FMTPRLock(g) ==
    /\ GoStep(g, "idle", "fmtpMode")
    /\ CanRLock
    /\ mutexReaders' = mutexReaders + 1
    /\ goFmtp' = [goFmtp EXCEPT ![g] = EmptyMap]
    /\ goTmp' = [goTmp EXCEPT ![g] = <<>>]
    /\ UNCHANGED <<SPS, PPS, PacketizationMode, mutexWriter,
                   goSps, goPps, paramsSet>>

\* if f.PacketizationMode != 0 { fmtp["packetization-mode"] = ... }
FMTPMode(g) ==
    /\ GoStep(g, "fmtpMode", "fmtpSPS")
    /\ goFmtp' = [goFmtp EXCEPT ![g] =
                    IF PacketizationMode # 0
                    THEN MapSet(@, "packetization-mode", FormatInt(PacketizationMode))
                    ELSE @]
    /\ UNCHANGED <<SPS, PPS, PacketizationMode, mutexWriter, mutexReaders,
                   goSps, goPps, goTmp, paramsSet>>

\* if f.SPS != nil { tmp = append(tmp, base64(f.SPS)) }
FMTPSPS(g) ==
    /\ GoStep(g, "fmtpSPS", "fmtpPPS")
    /\ goTmp' = [goTmp EXCEPT ![g] =
                    IF SPS # Nil THEN Append(@, EncodeToString(SPS)) ELSE @]
    /\ UNCHANGED <<SPS, PPS, PacketizationMode, mutexWriter, mutexReaders,
                   goSps, goPps, goFmtp, paramsSet>>

\* if f.PPS != nil { tmp = append(tmp, base64(f.PPS)) }
\* if tmp != nil { fmtp["sprop-parameter-sets"] = strings.Join(tmp, ",") }
FMTPPPS(g) ==
    /\ GoStep(g, "fmtpPPS", "fmtpProfile")
    /\ LET tmp == IF PPS # Nil THEN Append(goTmp[g], EncodeToString(PPS))
                               ELSE goTmp[g]
       IN /\ goTmp' = [goTmp EXCEPT ![g] = tmp]
          /\ goFmtp' = [goFmtp EXCEPT ![g] =
                          IF Len(tmp) # 0
                          THEN MapSet(@, "sprop-parameter-sets", Join(tmp))
                          ELSE @]
    /\ UNCHANGED <<SPS, PPS, PacketizationMode, mutexWriter, mutexReaders,
                   goSps, goPps, paramsSet>>

\* if len(f.SPS) >= 4 { fmtp["profile-level-id"] = hex of f.SPS[1:4] }
FMTPProfile(g) ==
    /\ GoStep(g, "fmtpProfile", "fmtpUnlock")
    /\ goFmtp' = [goFmtp EXCEPT ![g] =
                    IF Len(SPS) >= 4
                    THEN MapSet(@, "profile-level-id", HexUpper(Slice(SPS, 1, 4)))
                    ELSE @]
    /\ UNCHANGED <<SPS, PPS, PacketizationMode, mutexWriter, mutexReaders,
                   goSps, goPps, goTmp, paramsSet>>

\* the deferred f.mutex.RUnlock(); the caller has the map
FMTPRUnlock(g) ==
    /\ GoStep(g, "fmtpUnlock", "fmtpDone")
    /\ mutexReaders' = mutexReaders - 1
    /\ goTmp' = [goTmp EXCEPT ![g] = <<>>]
    /\ UNCHANGED <<SPS, PPS, PacketizationMode, mutexWriter,
                   goSps, goPps, goFmtp, paramsSet>>

\* the caller drops what SafeParams or FMTP returned
GoDone(g) ==
    /\ UNCHANGED <<encVars, decVars, idrVars>>
    /\ goPc[g] \in {"getDone", "fmtpDone"}
    /\ goPc' = [goPc EXCEPT ![g] = "idle"]
    /\ goSps' = [goSps EXCEPT ![g] = Nil]
    /\ goPps' = [goPps EXCEPT ![g] = Nil]
    /\ goFmtp' = [goFmtp EXCEPT ![g] = EmptyMap]
    /\ UNCHANGED <<SPS, PPS, PacketizationMode, mutexWriter, mutexReaders,
                   goTmp, paramsSet>>

H264Next ==
    \E g \in Goroutines :
        \/ \E pair \in ParamPairs : SafeSetParamsLock(g, pair[1], pair[2])
        \/ SafeSetParamsSPS(g)
        \/ SafeSetParamsPPS(g)
        \/ SafeSetParamsUnlock(g)
        \/ SafeParamsRLock(g)
        \/ SafeParamsSPS(g)
        \/ SafeParamsPPS(g)
        \/ SafeParamsRUnlock(g)
        \/ FMTPRLock(g)
        \/ FMTPMode(g)
        \/ FMTPSPS(g)
        \/ FMTPPPS(g)
        \/ FMTPProfile(g)
        \/ FMTPRUnlock(g)
        \/ GoDone(g)

\* every encoder configuration, with a fresh decoder
EncoderInit == EncInit /\ DecInit /\ IdrInit /\ H264Init /\ PacketizationMode = 0

\* a fresh decoder, beside one encoder that takes no step
DecoderInit ==
    /\ EncInit
    /\ PayloadMaxSize = DefaultPayloadMaxSize
    /\ InitialSequenceNumber = 0
    /\ DecInit
    /\ IdrInit
    /\ H264Init
    /\ PacketizationMode = 0

\* rtpH264ContainsIDR, beside an encoder and a decoder that take no step
IdrSpecInit == DecoderInit

\* the goroutines on one format, beside the rest taking no step
H264SpecInit ==
    /\ EncInit
    /\ PayloadMaxSize = DefaultPayloadMaxSize
    /\ InitialSequenceNumber = 0
    /\ DecInit
    /\ IdrInit
    /\ H264Init

EncoderSpec == EncoderInit /\ [][EncNext]_vars

\* a call that has begun runs on: the steps of the loops and the return
EncodeStep == EncodeAppend \/ EncodeFragment \/ EncodeNoRoom \/ EncodeFinish

EncoderFairSpec == EncoderSpec /\ WF_vars(EncodeStep)

DecoderSpec == DecoderInit /\ [][DecNext]_vars

IdrSpec == IdrSpecInit /\ [][IdrNext]_vars

H264Spec == H264SpecInit /\ [][H264Next]_vars

\* a call that has begun runs on
IdrFairSpec == IdrSpec /\ WF_vars(StapStep)

(***************************************************************************)
(* Reading a payload back: the aggregation header is 1 byte, each element  *)
(* is a LEB128 size followed by that many bytes.                           *)
(***************************************************************************)
RECURSIVE LEB128Value(_, _)
LEB128Value(buf, pos) ==
    IF buf[pos] < 128
    THEN buf[pos]
    ELSE (buf[pos] - 128) + 128 * LEB128Value(buf, pos + 1)

RECURSIVE LEB128Size(_, _)
LEB128Size(buf, pos) ==
    IF buf[pos] < 128 THEN 1 ELSE 1 + LEB128Size(buf, pos + 1)

\* the elements of a payload, from byte position pos on
RECURSIVE Elements(_, _)
Elements(payload, pos) ==
    IF pos > Len(payload)
    THEN <<>>
    ELSE LET n == LEB128Value(payload, pos)
             s == LEB128Size(payload, pos)
         IN <<SubSeq(payload, pos + s, pos + s + n - 1)>>
            \o Elements(payload, pos + s + n)

\* the element bytes of all packets, in packet order
ElementBytes(pkts) ==
    Flatten([i \in 1..Len(pkts) |-> Flatten(Elements(pkts[i].Payload, 2))])

AggregationHeader(pkt) == pkt.Payload[1]
IsContinuation(pkt) == Bit(AggregationHeader(pkt), 7) = 1     \* Z
ContinuesInNext(pkt) == Bit(AggregationHeader(pkt), 6) = 1    \* Y
HasKeyFrameFlag(pkt) == Bit(AggregationHeader(pkt), 3) = 1    \* N

SingleObu == encPc = "done" /\ Len(obus) = 1

\* C1: when Encode returns, the element bytes of the returned packets (the
\* payloads without aggregation header and LEB128 size prefixes), concatenated
\* in packet order, are the concatenation of the input OBUs in input order.
C1_BytesPreserved ==
    encPc = "done" => ElementBytes(packets) = Flatten(obus)

C1_Witness ==
    /\ encPc = "done"
    /\ Len(obus) = 2
    /\ Len(packets) >= 3
    /\ \E i \in 1..Len(packets) : Len(Elements(packets[i].Payload, 2)) = 2

\* C2: every returned packet has a payload of at most PayloadMaxSize bytes.
C2_PayloadWithinMax ==
    encPc = "done" =>
        \A i \in 1..Len(packets) : Len(packets[i].Payload) <= PayloadMaxSize

\* C3: a single OBU with 1 + (actual LEB128 prefix length) + len(obu)
\* <= PayloadMaxSize is returned as exactly one packet
\* [flags, prefix, bytes], no continuation bit set, marker set.
OnePacketFor(o) ==
    /\ Len(packets) = 1
    /\ ~IsContinuation(packets[1])
    /\ ~ContinuesInNext(packets[1])
    /\ SubSeq(packets[1].Payload, 2, Len(packets[1].Payload))
         = LEB128Marshal(Len(o)) \o o
    /\ packets[1].Marker

C3_SingleFitting ==
    (SingleObu /\ 1 + Len(LEB128Marshal(Len(obus[1]))) + Len(obus[1])
                    <= PayloadMaxSize)
        => OnePacketFor(obus[1])

\* the shape of the packets of one fragmented OBU
FragmentedShape ==
    /\ Len(packets) >= 2
    /\ \A i \in 1..Len(packets) :
          /\ IsContinuation(packets[i]) <=> (i > 1)
          /\ ContinuesInNext(packets[i]) <=> (i < Len(packets))
          /\ packets[i].Marker <=> (i = Len(packets))

\* C4: a single OBU too large for one packet is returned as two or
\* more packets, all but the last with a payload of exactly PayloadMaxSize
\* bytes, bit 7 set on all but the first, bit 6 set on all but the last,
\* marker only on the last.
C4_SingleFragmented ==
    (SingleObu /\ 1 + Len(LEB128Marshal(Len(obus[1]))) + Len(obus[1])
                    > PayloadMaxSize)
        => /\ FragmentedShape
           /\ \A i \in 1..(Len(packets) - 1) :
                 Len(packets[i].Payload) = PayloadMaxSize

\* C5: the returned packet list is not empty, its last packet has the
\* marker and no other packet has it.
C5_MarkerOnLastOnly ==
    encPc = "done" =>
        /\ Len(packets) >= 1
        /\ \A i \in 1..Len(packets) : packets[i].Marker <=> (i = Len(packets))

C5_Witness ==
    /\ encPc = "done"
    /\ Len(packets) >= 2
    /\ packets[Len(packets)].Marker
    /\ ~packets[1].Marker

\* C6: bit 3 of the first payload byte is set on the first returned packet
\* exactly when the keyframe predicate was true for the call, and on no
\* other packet.
C6_KeyFrameFlag ==
    encPc = "done" =>
        /\ HasKeyFrameFlag(packets[1]) <=> isKeyFrame
        /\ \A i \in 2..Len(packets) : ~HasKeyFrameFlag(packets[i])

C6_Witness ==
    /\ encPc = "done"
    /\ isKeyFrame
    /\ Len(packets) >= 2
    /\ HasKeyFrameFlag(packets[1])

(***************************************************************************)
(* Properties of rtpmpeg2audio.Decoder.Decode                              *)
(***************************************************************************)
\* the last packet had its 4 header bytes, with the reserved bytes zero
SeenHeaderWellFormed ==
    /\ decErr # "none"
    /\ Len(pktSeen.header) = PayloadHeaderLen
    /\ MBZ(pktSeen.header) = 0

\* the last packet passed the header checks of Decode
SeenPassedHeaderChecks == SeenHeaderWellFormed /\ pktSeen.hasBody

SeenOffset == Offset(pktSeen.header)

\* the errors that are neither ErrMorePacketsNeeded nor
\* ErrNonStartingPacketAndNoPrevious
IsResetError(e) ==
    e \notin {"none", "nil", ErrMorePacketsNeeded, ErrNonStartingPacketAndNoPrevious}

\* C7: after a Decode call that returns an error other than
\* ErrMorePacketsNeeded and ErrNonStartingPacketAndNoPrevious, the pending
\* fragment list is empty and the accumulated size is zero.
C7_ErrorResets ==
    IsResetError(decErr) => (fragments = <<>> /\ fragmentsSize = 0)

C7_Witness ==
    /\ decErr = "fragment is too big"
    /\ sizeBefore > 0
    /\ fragments = <<>>
    /\ fragmentsSize = 0

\* C8: while no packet with offset 0 has passed the header checks, a packet
\* that passes them with a non-zero offset is answered by
\* ErrNonStartingPacketAndNoPrevious and leaves fragments, fragmentsSize,
\* fragmentsExpected and firstPacketReceived unchanged; once a packet with
\* offset 0 has passed the header checks, no call returns
\* ErrNonStartingPacketAndNoPrevious.
C8_NonStartingOnlyBeforeStart ==
    [][/\ (~startSeen' /\ SeenPassedHeaderChecks' /\ SeenOffset' # 0)
            => /\ decErr' = ErrNonStartingPacketAndNoPrevious
               /\ UNCHANGED <<fragments, fragmentsSize, fragmentsExpected,
                              firstPacketReceived>>
       /\ startSeen => decErr' # ErrNonStartingPacketAndNoPrevious]_vars

C8_Witness ==
    /\ ~startSeen
    /\ SeenPassedHeaderChecks
    /\ SeenOffset # 0
    /\ decErr = ErrNonStartingPacketAndNoPrevious

\* C9: a frame returned for a packet of non-zero offset has the length
\* declared by the frame header of the packet of offset 0 that began the
\* reassembly, and its bytes are the elementary bytes of that packet and of
\* the continuation packets accepted since, in arrival order.
C9_JoinedFrame ==
    (decErr = "nil" /\ SeenOffset # 0)
        => /\ decFrames = <<acceptedBytes>>
           /\ Len(decFrames[1]) = declaredLen

C9_Witness ==
    /\ decErr = "nil"
    /\ SeenOffset = 70
    /\ decFrames = <<FrameB>>

\* C10: a packet with its reserved bytes zero and a non-zero offset that
\* differs from the accumulated size is answered by an error that is not
\* ErrMorePacketsNeeded, gives no frame and leaves nothing pending.
C10_OffsetMismatchRejected ==
    (SeenHeaderWellFormed /\ SeenOffset # 0 /\ SeenOffset # sizeBefore)
        => /\ decErr \notin {"nil", ErrMorePacketsNeeded}
           /\ decFrames = <<>>
           /\ fragments = <<>>
           /\ fragmentsSize = 0

C10_Witness ==
    /\ SeenPassedHeaderChecks
    /\ sizeBefore > 0
    /\ SeenOffset # 0
    /\ SeenOffset # sizeBefore
    /\ decErr = "unexpected offset"

\* the last packet was a 4-byte payload with zero reserved bytes whose offset
\* is the non-zero size accumulated by the reassembly then in progress
SeenBareContinuation ==
    /\ SeenHeaderWellFormed
    /\ ~pktSeen.hasBody
    /\ SeenOffset # 0
    /\ SeenOffset = sizeBefore

\* C11: Decode answers "payload is too short" exactly for payloads of fewer
\* than 4 bytes; a 4-byte payload with zero reserved bytes whose offset is the
\* accumulated size of a reassembly in progress is answered by
\* ErrMorePacketsNeeded and the reassembly stays pending.
C11_TooShortBelowFour ==
    decErr # "none" =>
        /\ (decErr = "payload is too short")
               <=> (Len(pktSeen.header) < PayloadHeaderLen)
        /\ SeenBareContinuation
               => /\ decErr = ErrMorePacketsNeeded
                  /\ fragments # <<>>
                  /\ fragmentsSize = sizeBefore

\* C11 amended: Decode answers "payload is too short" exactly for payloads of
\* fewer than 5 bytes (the 4 header bytes and one elementary byte); a 4-byte
\* payload, whatever its offset, is answered so and leaves nothing pending.
C11_TooShortBelowFive ==
    decErr # "none" =>
        /\ (decErr = "payload is too short") <=> ~pktSeen.hasBody
        /\ ~pktSeen.hasBody => (fragments = <<>> /\ fragmentsSize = 0)

C11_Witness ==
    /\ SeenBareContinuation
    /\ decErr = "payload is too short"
    /\ fragments = <<>>
    /\ fragmentsSize = 0

(***************************************************************************)
(* Properties of formats.rtpH264ContainsIDR                                *)
(***************************************************************************)
\* the call has returned, for a payload whose first byte has type t
ReturnedForType(t) ==
    /\ idrPc = "done"
    /\ Len(pktPayload) > 0
    /\ pktPayload[1] % 32 = t

\* C12: rtpH264ContainsIDR never indexes or slices out of range, every call
\* that entered the aggregation loop returns, and the value returned is false
\* when the payload is empty or its type is none of 5, 24, 28.
C12_Total ==
    /\ [](idrPc # "panic")
    /\ [](idrPc = "done" =>
            ((Len(pktPayload) = 0 \/ pktPayload[1] % 32 \notin {5, 24, 28})
                => idrRet = FALSE))
    /\ (idrPc = "stap") ~> (idrPc = "done")

\* a truncated size field behind a well-formed entry
C12_Witness ==
    /\ ReturnedForType(24)
    /\ Len(pktPayload) > 4
    /\ Len(stapPayload) = 1
    /\ idrRet = FALSE

\* the offset in buf of entry k (the first is entry 1), or -1 when an entry
\* before it is not well-formed
WellFormedAt(buf, pos) ==
    /\ pos >= 0
    /\ pos + 2 <= Len(buf)
    /\ buf[pos + 1] * 256 + buf[pos + 2] # 0
    /\ pos + 2 + buf[pos + 1] * 256 + buf[pos + 2] <= Len(buf)

RECURSIVE EntryOffset(_, _)
EntryOffset(buf, k) ==
    IF k = 1 THEN 0
    ELSE LET prev == EntryOffset(buf, k - 1)
         IN IF WellFormedAt(buf, prev)
            THEN prev + 2 + buf[prev + 1] * 256 + buf[prev + 2]
            ELSE -1

\* some well-formed entry of type 5 follows well-formed entries only
HasReachableIDR(buf) ==
    \E k \in 1..Len(buf) :
        /\ WellFormedAt(buf, EntryOffset(buf, k))
        /\ buf[EntryOffset(buf, k) + 3] % 32 = 5

\* C13: for a payload of type 24, rtpH264ContainsIDR returns true exactly
\* when some entry {2-byte size, unit} of type 5 is reached with every entry
\* up to it well-formed (size non-zero and within the remaining bytes).
C13_StapWalk ==
    ReturnedForType(24) => (idrRet <=> HasReachableIDR(Tail(pktPayload)))

\* true for an IDR behind a unit of another type
C13_Witness ==
    /\ ReturnedForType(24)
    /\ Len(pktPayload) > 4
    /\ pktPayload[4] % 32 # 5
    /\ idrRet = TRUE

\* C14: for a payload of type 28 with 2 bytes or more, rtpH264ContainsIDR
\* returns true exactly when bit 7 of the second byte is set and its low 5
\* bits are 5.
C14_FuStartOnly ==
    (ReturnedForType(28) /\ Len(pktPayload) >= 2)
        => (idrRet <=> (Bit(pktPayload[2], 7) = 1 /\ pktPayload[2] % 32 = 5))

\* a fragment that is not the first, of an IDR
C14_Witness ==
    /\ ReturnedForType(28)
    /\ Len(pktPayload) >= 2
    /\ Bit(pktPayload[2], 7) = 0
    /\ pktPayload[2] % 32 = 5
    /\ idrRet = FALSE

(***************************************************************************)
(* Properties of formats.H264                                              *)
(***************************************************************************)
\* the map FMTP builds from one (sps, pps) pair
FmtpOf(sps, pps, mode) ==
    LET m1 == IF mode # 0
              THEN MapSet(EmptyMap, "packetization-mode", FormatInt(mode))
              ELSE EmptyMap
        tmp == (IF sps # Nil THEN <<EncodeToString(sps)>> ELSE <<>>)
               \o (IF pps # Nil THEN <<EncodeToString(pps)>> ELSE <<>>)
        m2 == IF Len(tmp) # 0 THEN MapSet(m1, "sprop-parameter-sets", Join(tmp))
                              ELSE m1
    IN IF Len(sps) >= 4
       THEN MapSet(m2, "profile-level-id", HexUpper(SubSeq(sps, 2, 4)))
       ELSE m2

\* positions between Lock and Unlock, and between RLock and RUnlock
WritePositions == {"setSPS", "setPPS", "setUnlock"}
ReadPositions == {"getSPS", "getPPS", "getUnlock",
                  "fmtpMode", "fmtpSPS", "fmtpPPS", "fmtpProfile", "fmtpUnlock"}

\* C15: the pair SafeParams returns, and the pair FMTP builds its map from,
\* is the pair of one SafeSetParams call or the initial pair; and while a
\* goroutine is between Lock and Unlock no other goroutine is between Lock
\* and Unlock or between RLock and RUnlock.
C15_ParamsWrittenTogether ==
    /\ \A g \in Goroutines :
          goPc[g] = "getDone" => <<goSps[g], goPps[g]>> \in paramsSet
    /\ \A g \in Goroutines :
          goPc[g] = "fmtpDone" =>
              \E pair \in paramsSet :
                  goFmtp[g] = FmtpOf(pair[1], pair[2], PacketizationMode)
    /\ \A w \in Goroutines :
          goPc[w] \in WritePositions =>
              /\ mutexWriter = w
              /\ mutexReaders = 0
              /\ \A g \in Goroutines \ {w} :
                    goPc[g] \notin WritePositions \cup ReadPositions

\* a reader has returned the pair of one call while a second call has
\* replaced the SPS and not yet the PPS, and another reader has its map
C15_Witness ==
    \E r, w, m \in Goroutines :
        /\ goPc[r] = "getDone"
        /\ goSps[r] # Nil
        /\ goPc[w] = "setPPS"
        /\ SPS # goSps[r]
        /\ PPS = goPps[r]
        /\ goPc[m] = "fmtpDone"
        /\ "sprop-parameter-sets" \in DOMAIN goFmtp[m]

(***************************************************************************)
(* Further properties of rtpav1.Encoder.Encode                             *)
(***************************************************************************)
\* the number of element bytes in the first i packets
RECURSIVE ElementBytesUpTo(_, _)
ElementBytesUpTo(pkts, i) ==
    IF i = 0 THEN 0
    ELSE ElementBytesUpTo(pkts, i - 1)
         + Len(Flatten(Elements(pkts[i].Payload, 2)))

\* the number of bytes in the first k OBUs
RECURSIVE ObuBytesUpTo(_, _)
ObuBytesUpTo(list, k) ==
    IF k = 0 THEN 0 ELSE ObuBytesUpTo(list, k - 1) + Len(list[k])

\* the boundary between packet i and packet i + 1 falls inside an OBU
SplitsObu(i) ==
    ElementBytesUpTo(packets, i) \notin {ObuBytesUpTo(obus, k) : k \in 0..Len(obus)}

\* what a receiver makes of the packets: the first element of a packet with
\* bit 7 set continues the last element before it, every other element is
\* an OBU
RECURSIVE JoinElements(_, _, _)
JoinElements(pkts, i, acc) ==
    IF i > Len(pkts) THEN acc
    ELSE LET es == Elements(pkts[i].Payload, 2)
         IN IF IsContinuation(pkts[i]) /\ Len(acc) > 0 /\ Len(es) > 0
            THEN JoinElements(pkts, i + 1,
                     [acc EXCEPT ![Len(acc)] = @ \o es[1]] \o Tail(es))
            ELSE JoinElements(pkts, i + 1, acc \o es)

\* C16: bit 6 of a packet and bit 7 of the next are set only where the
\* boundary between the two packets falls inside an OBU, and joining the
\* elements by these bits gives back the input OBU list.
C16_BitsOnlyAcrossSplits ==
    encPc = "done" =>
        /\ \A i \in 1..(Len(packets) - 1) :
              (ContinuesInNext(packets[i]) \/ IsContinuation(packets[i + 1]))
                  => SplitsObu(i)
        /\ JoinElements(packets, 1, <<>>) = obus

(***************************************************************************)
(* Further properties of rtpmpeg2audio.Decoder.Decode                      *)
(***************************************************************************)
\* C17: between two Decode calls, when fragments are pending, fragmentsSize
\* is their total length, fragmentsExpected is positive, and the two add up
\* to the frame length declared by the frame header of the packet of offset
\* 0 that began the reassembly.
C17_PendingAccounting ==
    fragments # <<>> =>
        /\ fragmentsSize = Len(Flatten(fragments))
        /\ fragmentsExpected > 0
        /\ fragmentsSize + fragmentsExpected = declaredLen
        /\ declaredLen = FrameLen(fragments[1])

\* two packets of a frame of three are pending
C17_Witness ==
    /\ Len(fragments) = 2
    /\ fragmentsSize = 70
    /\ fragmentsExpected = 50
    /\ decErr = ErrMorePacketsNeeded

\* C18: a packet of offset 0 whose elementary bytes are one or more complete
\* frames followed by a truncated frame is answered by an error other than
\* ErrMorePacketsNeeded, with no frame, and leaves nothing pending; a packet
\* of offset 0 is answered by ErrMorePacketsNeeded, and its bytes become the
\* one pending fragment, only when no complete frame is ahead of the
\* truncated one.
C18_TruncatedAfterComplete ==
    (SeenPassedHeaderChecks /\ SeenOffset = 0) =>
        /\ (pktSeen.frames >= 1 /\ pktSeen.truncated)
               => /\ decErr \notin {"nil", ErrMorePacketsNeeded}
                  /\ decFrames = <<>>
                  /\ fragments = <<>>
                  /\ fragmentsSize = 0
        /\ decErr = ErrMorePacketsNeeded
               => /\ pktSeen.frames = 0
                  /\ pktSeen.truncated
                  /\ fragments = <<acceptedBytes>>

\* a complete frame followed by a truncated one ended a reassembly
C18_Witness ==
    /\ decErr = "invalid packet"
    /\ SeenOffset = 0
    /\ sizeBefore > 0
    /\ fragments = <<>>
    /\ fragmentsSize = 0

\* the packets of the call in progress or just returned
CallHasPackets == encPc \in {"loop", "done"}

\* C19: the i-th packet of a call has the sequence number
\* InitialSequenceNumber + (packets returned by the earlier calls) + i - 1
\* modulo 2^16, a call that fails in the keyframe check leaves the counter
\* as it was, and the packets of one call have the same timestamp, SSRC and
\* payload type.
C19_SequenceNumbers ==
    /\ CallHasPackets =>
          \A i \in 1..Len(packets) :
              /\ packets[i].SequenceNumber
                    = (InitialSequenceNumber + emittedBefore + i - 1) % 65536
              /\ packets[i].Timestamp = packets[1].Timestamp
              /\ packets[i].SSRC = packets[1].SSRC
              /\ packets[i].PayloadType = packets[1].PayloadType
    /\ encPc \in {"idle", "failed"} =>
          sequenceNumber = (InitialSequenceNumber + emittedBefore) % 65536

\* the second call goes on where the first one ended, across the wrap
C19_Witness ==
    /\ encPc = "done"
    /\ encCalls = 2
    /\ InitialSequenceNumber = 65534
    /\ emittedBefore = 3
    /\ Len(packets) >= 2
    /\ packets[1].SequenceNumber = 1
    /\ packets[2].SequenceNumber = 2

\* what is left to do of a call: the OBUs not yet placed, the bytes of the
\* current OBU not yet placed, and whether the current packet holds elements
LargestObuLen ==
    CHOOSE n \in SmallObuLens \cup LargeObuLens :
        \A m \in SmallObuLens \cup LargeObuLens : m <= n

Remaining ==
    (Len(obus) + 1 - obuIdx) * (2 * LargestObuLen + 2)
    + 2 * Len(obu)
    + (IF curPayloadLen > 1 THEN 1 ELSE 0)

\* the current OBU does not fit an empty packet
NeverFits == Needed(Len(obu)) > PayloadMaxSize - 1

\* C20: with PayloadMaxSize >= 4 every step of the loops brings the call
\* nearer to its end (a new packet is opened on an empty one only behind a
\* slice of at least one byte, and the rest behind a slice is not empty) and
\* the call returns; with PayloadMaxSize <= 3 and an OBU that does not fit,
\* a step places nothing and the OBU still does not fit.
C20_Terminates ==
    /\ [][(PayloadMaxSize >= 4 /\ encPc = "loop" /\ encPc' = "loop")
            => /\ Remaining' < Remaining
               /\ Remaining' >= 0
               /\ (Len(packets') > Len(packets) /\ curPayloadLen = 1)
                     => /\ Len(obu') < Len(obu)
                        /\ Len(obu') > 0]_vars
    /\ [][(PayloadMaxSize <= 3 /\ encPc = "loop" /\ obuIdx <= Len(obus)
           /\ NeverFits)
            => /\ encPc' = "loop"
               /\ obuIdx' = obuIdx
               /\ obu' = obu
               /\ NeverFits']_vars
    /\ (PayloadMaxSize >= 4 /\ encPc = "loop")
          ~> (encPc = "done" \/ Len(packets) = MaxPackets)

\* an OBU placed one byte a packet, with the smallest PayloadMaxSize
C20_Witness ==
    /\ PayloadMaxSize = 4
    /\ encPc = "loop"
    /\ obuIdx <= Len(obus)
    /\ Len(packets) >= 4
    /\ Len(obus[obuIdx]) - Len(obu) >= 3

====
